---- MODULE Spec2Model ----
(***************************************************************************)
(* The users service of alesr/stdservices (users/users.go): account        *)
(* creation, token issuance and verification, email verification.          *)
(*                                                                         *)
(* The service runs one goroutine per inbound call.  A call that touches   *)
(* shared state once (FetchByID, Delete, GenerateToken, VerifyToken) is    *)
(* one action; Create and SendEmailVerification touch the repository, the  *)
(* package-level random source and the mailer in turn, and are split at    *)
(* those accesses so that calls interleave.  `last` holds what the call    *)
(* that returned in the latest step was given and what it returned.        *)
(***************************************************************************)
EXTENDS Integers, Sequences, FiniteSets, TLC

(***************************************************************************)
(* Bounds of the model.                                                    *)
(***************************************************************************)
NumProcs == 2         \* concurrent callers
MaxUsers == 2         \* rows Create may insert (ids uuid.NewString hands out)
MaxVerifications == 2 \* calls of SendEmailVerification, direct or by Create
MaxTokens == 1        \* tokens generateJWT may sign
MaxTicks == 4         \* single clock ticks after the long wait
MaxEarlyTicks == 1    \* single clock ticks before it
TicksPerSecond == 2   \* clock resolution: ticks in one second

(***************************************************************************)
(* Program constants.                                                      *)
(***************************************************************************)
TokenTTL == 86400         \* time.Hour * 24, in seconds (generateJWT)
VerificationTTL == 86400  \* time.Hour * 24, in seconds (SendEmailVerification)
CodeLength == 6           \* randString(6)

Procs == 1..NumProcs

\* const chars = "abcdefghijklmnopqrstuvwxyz0123456789"
chars ==
  << "a","b","c","d","e","f","g","h","i","j","k","l","m","n","o","p","q","r",
     "s","t","u","v","w","x","y","z","0","1","2","3","4","5","6","7","8","9" >>

\* jwtSigningMethod = jwt.SigningMethodHS512
jwtSigningMethod == "HS512"

\* The roles of the domain model.
RoleUser == "user"
RoleAdmin == "admin"

(***************************************************************************)
(* The clock.  `now` counts ticks; time.Time.Unix() drops the part of a    *)
(* second.  The clock moves by single ticks and, once, by a long wait of   *)
(* one second less than the token's validity.                              *)
(***************************************************************************)
StartTime == TicksPerSecond
LongWait == TicksPerSecond * (TokenTTL - 1)
Times ==
  { StartTime + k : k \in 0..MaxEarlyTicks } \cup
  { StartTime + LongWait + k : k \in 0..MaxTicks }
Unix(t) == t \div TicksPerSecond
\* The readings of the clock a call can make after one made at t: time does
\* not stand still between two calls of time.Now().
LaterReadings(t) == { t2 \in {t, t + 1} : t2 \in Times }

(***************************************************************************)
(* JSON values as encoding/json produces and reads them.                   *)
(***************************************************************************)
Absent == [t |-> "absent", s |-> "", n |-> 0]
Str(x) == [t |-> "string", s |-> x, n |-> 0]
Num(x) == [t |-> "number", s |-> "", n |-> x]
IsString(v) == v.t = "string"
IsNumber(v) == v.t = "number"

\* The claim names VerifyToken and the library read.
ClaimKeys == {"user_id", "role", "exp", "iat", "nbf"}
NoPayload == [k \in ClaimKeys |-> Absent]

(***************************************************************************)
(* jwtClaim and its encoding.  encoding/json writes the exported fields of *)
(* a struct (a field is exported when its name starts with an upper-case   *)
(* letter) under the key of their json tag, and leaves out a field tagged  *)
(* omitempty whose value is zero.  jwtClaim declares id and role in lower  *)
(* case and embeds jwt.StandardClaims, whose fields are ExpiresAt          *)
(* (json:"exp,omitempty"), IssuedAt ("iat,omitempty") and NotBefore        *)
(* ("nbf,omitempty") among others that generateJWT leaves zero.            *)
(***************************************************************************)
jwtClaim ==
  << [name |-> "id",        exported |-> FALSE, key |-> "id",   omitempty |-> FALSE],
     [name |-> "role",      exported |-> FALSE, key |-> "role", omitempty |-> FALSE],
     [name |-> "ExpiresAt", exported |-> TRUE,  key |-> "exp",  omitempty |-> TRUE],
     [name |-> "IssuedAt",  exported |-> TRUE,  key |-> "iat",  omitempty |-> TRUE],
     [name |-> "NotBefore", exported |-> TRUE,  key |-> "nbf",  omitempty |-> TRUE] >>

IsZero(v) == (IsNumber(v) /\ v.n = 0) \/ (IsString(v) /\ v.s = "")

\* json.Marshal of a struct value c whose fields are described by fields.
MarshalJSON(fields, c) ==
  [k \in ClaimKeys |->
     LET fs == { i \in DOMAIN fields : fields[i].exported /\ fields[i].key = k }
     IN  IF fs = {} THEN Absent
         ELSE LET f == fields[CHOOSE i \in fs : TRUE]
              IN  IF f.omitempty /\ IsZero(c[f.name]) THEN Absent ELSE c[f.name]]

(***************************************************************************)
(* Tokens.  A token string is empty, not a JWT at all, or a JWT: a header  *)
(* naming the algorithm, a payload and a signature.  The signature an      *)
(* algorithm makes with a key over a payload is modelled as that triple;   *)
(* "none" signs with no key.                                               *)
(***************************************************************************)
Sign(alg, key, payload) ==
  [alg |-> alg, key |-> IF alg = "none" THEN "" ELSE key, payload |-> payload]
NoSignature == [alg |-> "", key |-> "", payload |-> NoPayload]
EmptyToken == [kind |-> "empty", alg |-> "", payload |-> NoPayload, sig |-> NoSignature]
MalformedToken ==
  [kind |-> "malformed", alg |-> "", payload |-> NoPayload, sig |-> NoSignature]
\* jwt.NewWithClaims(method, claims) followed by token.SignedString(key).
SignedString(alg, key, payload) ==
  [kind |-> "jwt", alg |-> alg, payload |-> payload, sig |-> Sign(alg, key, payload)]

\* The algorithms the jwt library registers, and those of them that are
\* *jwt.SigningMethodHMAC.
RegisteredMethods == {"HS256", "HS384", "HS512", "RS256", "ES256", "none"}
HMACMethods == {"HS256", "HS384", "HS512"}

\* The key function VerifyToken hands to jwt.Parse: the key, or an error for
\* a method that is not HMAC or is not HS512.
Keyfunc(tok, key) ==
  IF tok.alg \notin HMACMethods
    THEN [err |-> "unexpected signing method", key |-> ""]
  ELSE IF tok.alg # jwtSigningMethod
    THEN [err |-> "invalid token signing method", key |-> ""]
  ELSE [err |-> "nil", key |-> key]

\* jwt.MapClaims.Valid at Unix time sec: exp, iat and nbf are checked when
\* present and not zero; a token is valid up to and including second exp.
MapClaimsValid(payload, sec) ==
  IF IsNumber(payload["exp"]) /\ payload["exp"].n # 0 /\ ~(sec <= payload["exp"].n)
    THEN "Token is expired"
  ELSE IF IsNumber(payload["iat"]) /\ payload["iat"].n # 0 /\ ~(sec >= payload["iat"].n)
    THEN "Token used before issued"
  ELSE IF IsNumber(payload["nbf"]) /\ payload["nbf"].n # 0 /\ ~(sec >= payload["nbf"].n)
    THEN "Token is not valid yet"
  ELSE "nil"

\* jwt.Parse(token, keyfunc) with the library's clock reading t: the token
\* is Valid, and the error nil, only when the algorithm is registered, the
\* key function accepts it, the claims are valid and the signature is the
\* one the algorithm makes with the key over the payload.
Parse(tok, key, t) ==
  LET kf == Keyfunc(tok, key)
      cl == MapClaimsValid(tok.payload, Unix(t))
      bad(e) == [err |-> e, Valid |-> FALSE, Claims |-> tok.payload]
  IN  IF tok.kind # "jwt" THEN bad("token contains an invalid number of segments")
      ELSE IF tok.alg \notin RegisteredMethods
        THEN bad("signing method (alg) is unavailable")
      ELSE IF kf.err # "nil" THEN bad(kf.err)
      ELSE IF cl # "nil" THEN bad(cl)
      ELSE IF tok.sig # Sign(tok.alg, kf.key, tok.payload)
        THEN bad("signature is invalid")
      ELSE [err |-> "nil", Valid |-> TRUE, Claims |-> tok.payload]

(***************************************************************************)
(* Inputs.                                                                 *)
(***************************************************************************)
Jane ==
  [Fullname |-> "Jane Doe", Username |-> "janedoe", Email |-> "jane@example.com",
   Birthdate |-> "1990-01-01", Password |-> "Str0ngPass!"]
Joe ==
  [Fullname |-> "Joe Doe", Username |-> "joedoe", Email |-> "joe@example.com",
   Birthdate |-> "1985-05-05", Password |-> "0therPass!"]
\* Another person registering with Jane's email.
Impostor == [Joe EXCEPT !.Email = Jane.Email, !.Username = "notjane"]
\* An input that does not validate.
Malformed == [Jane EXCEPT !.Email = "not-an-email"]
CreateUserInputs == {Jane, Joe, Impostor, Malformed}

EmailInputs == {Jane.Email, Joe.Email, "not-an-email"}
PasswordInputs == {Jane.Password, Joe.Password, "short"}

\* The ids uuid.NewString() hands out, in the order it does, and the id of
\* the row the database may hold when the service starts.
UUIDs == << "uuid-1", "uuid-2", "uuid-3", "uuid-4" >>
SeedID == "uuid-0"
IDInputs == {UUIDs[1], UUIDs[2], SeedID, "not-a-uuid"}

(***************************************************************************)
(* pkg/validate and the input's own validate method.                       *)
(***************************************************************************)
ValidateID(id) == id \in {UUIDs[i] : i \in DOMAIN UUIDs} \cup {SeedID}
ValidateEmail(email) == email \in {Jane.Email, Joe.Email}
ValidatePassword(password) == password \in {Jane.Password, Joe.Password}
ValidateCreateUserInput(in) ==
  /\ in.Fullname # ""
  /\ in.Username # ""
  /\ in.Birthdate # ""
  /\ ValidateEmail(in.Email)
  /\ ValidatePassword(in.Password)
\* role.validate: the role is one of the two the domain knows.
ValidateRole(role) == role \in {RoleUser, RoleAdmin}

(***************************************************************************)
(* bcrypt.  The digest carries its cost and salt; comparing hashes the     *)
(* candidate with the digest's own salt and cost.                          *)
(***************************************************************************)
DefaultCost == 10
bcryptSum(password, salt, cost) == << cost, salt, password >>
GenerateFromPassword(password, cost) ==
  [cost |-> cost, salt |-> "salt", sum |-> bcryptSum(password, "salt", cost)]
CompareHashAndPassword(hash, password) ==
  bcryptSum(password, hash.salt, hash.cost) = hash.sum

(***************************************************************************)
(* The repository: a table of user rows with unique id and unique email,   *)
(* soft deletion, and a table of email verifications.  Every call may      *)
(* fail with a storage error (fault).                                      *)
(***************************************************************************)
RepoInsert(rows, row, fault) ==
  IF fault THEN [err |-> "storage", rows |-> rows]
  ELSE IF \E r \in rows : r.ID = row.ID \/ r.Email = row.Email
    THEN [err |-> "ErrDuplicateRecord", rows |-> rows]
  ELSE [err |-> "nil", rows |-> rows \cup {row}]
\* The rows a select returns: none (nil) or one.
RepoSelectByID(rows, id) == { r \in rows : r.ID = id /\ ~r.Deleted }
RepoSelectByEmail(rows, email) == { r \in rows : r.Email = email /\ ~r.Deleted }
RepoDeleteByID(rows, id) ==
  { IF r.ID = id THEN [r EXCEPT !.Deleted = TRUE] ELSE r : r \in rows }
\* The row Insert hands back: the row stored, or, of a repository whose
\* representation of a role the service does not know, that row with such
\* a role.
RepoInserted(row, fault) ==
  IF fault = "role" THEN [row EXCEPT !.Role = "guest"] ELSE row
RepoInsertEmailVerification(rows, row, fault) ==
  IF fault THEN [err |-> "storage", rows |-> rows]
  ELSE [err |-> "nil", rows |-> rows \cup {row}]

(***************************************************************************)
(* Pure parts of the service.                                              *)
(***************************************************************************)
NoUser ==
  [ID |-> "", Fullname |-> "", Username |-> "", Birthdate |-> "", Email |-> "",
   EmailVerified |-> FALSE, Role |-> ""]

\* newUserFromRepository: the domain user of a row, or an error for a role
\* that is neither "user" nor "admin".  The hash stays behind.
newUserFromRepository(row) ==
  IF row.Role \notin {"user", "admin"}
    THEN [err |-> "invalid role", user |-> NoUser]
  ELSE [err |-> "nil",
        user |-> [ID |-> row.ID, Fullname |-> row.Fullname, Username |-> row.Username,
                  Birthdate |-> row.Birthdate, Email |-> row.Email,
                  EmailVerified |-> row.EmailVerified,
                  Role |-> IF row.Role = "user" THEN RoleUser ELSE RoleAdmin]]

\* NewRow with the role of a privileged account.
NewRowElevated(in, id, hash) ==
  [ID |-> id, Fullname |-> in.Fullname, Username |-> in.Username,
   Birthdate |-> in.Birthdate, Email |-> in.Email, EmailVerified |-> FALSE,
   PasswordHash |-> hash, Role |-> RoleAdmin, Deleted |-> FALSE]

\* The row Create hands to Insert: role and emailVerified are fixed.  Its
\* CreatedAt and UpdatedAt, which no operation reads, are left out.
NewRow(in, id, hash) ==
  [ID |-> id, Fullname |-> in.Fullname, Username |-> in.Username,
   Birthdate |-> in.Birthdate, Email |-> in.Email, EmailVerified |-> FALSE,
   PasswordHash |-> hash, Role |-> RoleUser, Deleted |-> FALSE]

\* NewClaims with ExpiresAt taken from a second, later reading of the clock.
NewClaimsTwoReadings(userID, role, t) ==
  [id |-> Str(userID), role |-> Str(role),
   IssuedAt |-> Num(Unix(t)),
   ExpiresAt |-> Num(Unix(t + 1 + TokenTTL * TicksPerSecond)),
   NotBefore |-> Num(0)]

\* The claims generateJWT builds: jwtClaim{userID, string(role),
\* jwt.StandardClaims{IssuedAt: now.Unix(), ExpiresAt: now.Add(24h).Unix()}}.
NewClaims(userID, role, t) ==
  [id |-> Str(userID), role |-> Str(role),
   IssuedAt |-> Num(Unix(t)),
   ExpiresAt |-> Num(Unix(t + TokenTTL * TicksPerSecond)),
   NotBefore |-> Num(0)]

\* generateJWT at clock reading t with the service's key.
generateJWT(userID, role, key, t) ==
  IF ~ValidateID(userID) THEN [err |-> "could not validate id", token |-> EmptyToken]
  ELSE IF ~ValidateRole(role) THEN [err |-> "errRoleInvalid", token |-> EmptyToken]
  ELSE [err |-> "nil",
        token |-> SignedString(jwtSigningMethod, key,
                               MarshalJSON(jwtClaim, NewClaims(userID, role, t)))]

\* The source of randString: Intn(n) of a generator in state s, and the
\* state it leaves.
Intn(s, n) == s % n
rngNext(s) == (s * 5 + 3) % 64

RECURSIVE randString(_, _)
\* randString(length) from generator state s: the string, and the state
\* the generator is left in.
randString(length, s) ==
  IF length = 0 THEN [str |-> << >>, s |-> s]
  ELSE LET rest == randString(length - 1, rngNext(s))
       IN  [str |-> << chars[Intn(s, Len(chars)) + 1] >> \o rest.str, s |-> rest.s]

(***************************************************************************)
(* State.                                                                  *)
(***************************************************************************)
VARIABLES
  users,          \* the repository's user rows
  verifications,  \* the repository's email verification rows
  outbox,         \* the messages the mailer accepted
  logs,           \* the user ids logger.Error was called for
  seededRand,     \* the state of the package-level random source
  now,            \* the clock, in ticks
  issued,         \* the tokens generateJWT signed, with the claims it built
  emailer,        \* DefaultService.emailer: "nil" unless WithEmailVerification
  calls,          \* per caller: the call it is in and where it is
  created,        \* per email: how many Create calls returned a user
  panicked,       \* a call dereferenced a nil emailer
  draws,          \* how many calls of randString have begun
  last            \* the call that returned in the latest step, if one did

vars ==
  << users, verifications, outbox, logs, seededRand, now, issued, emailer, calls,
     created, panicked, draws, last >>

\* DefaultService configuration, fixed by New.
jwtSigningKey == "signing-key"
emailVerificationSenderName == "stdservices"
emailVerificationSenderAddr == "noreply@example.com"
emailVerificationEndpoint == << "https:", "example.com", "verify" >>

NoVerifyTokenResponse == [ID |-> "", Username |-> "", Role |-> ""]
NoClaims ==
  [id |-> Str(""), role |-> Str(""), IssuedAt |-> Num(0), ExpiresAt |-> Num(0),
   NotBefore |-> Num(0)]

Idle ==
  [pc |-> "idle", op |-> "", user |-> NoUser, userID |-> "", username |-> "",
   to |-> "", r |-> 0, code |-> << >>]

\* The shape of `last`.  effects names the collaborators the call reached,
\* cause is the error one of them returned, stored holds the rows the
\* repository returned.
NoCall ==
  [op |-> "", id |-> "", role |-> "", email |-> "", password |-> "",
   input |-> Malformed, token |-> EmptyToken, t1 |-> 0, t2 |-> 0, err |-> "nil", cause |-> "nil",
   user |-> NoUser, resp |-> NoVerifyTokenResponse, out |-> EmptyToken,
   claims |-> NoClaims, stored |-> {}, effects |-> {}]

SomeoneIdle == { p \in Procs : calls[p].pc = "idle" } # {}
\* The id uuid.NewString() returns next: one no row has.
NextUUID == UUIDs[Cardinality({ r \in users : r.ID # SeedID }) + 1]

Init ==
  /\ users = {}
  /\ verifications = {}
  /\ outbox = {}
  /\ logs = {}
  /\ now = StartTime
  /\ seededRand = (now * 7) % 64
  /\ issued = {}
  /\ emailer \in {"nil", "set"}
  /\ calls = [p \in Procs |-> Idle]
  /\ created = [e \in {Jane.Email, Joe.Email} |-> 0]
  /\ panicked = FALSE
  /\ draws = 0
  /\ last = NoCall

(***************************************************************************)
(* The clock.                                                              *)
(***************************************************************************)
Tick ==
  /\ ~panicked
  /\ now + 1 \in Times
  /\ now' = now + 1
  /\ last' = NoCall
  /\ UNCHANGED << users, verifications, outbox, logs, seededRand, issued, emailer,
                  calls, created, panicked, draws >>

Wait ==
  /\ ~panicked
  /\ now + LongWait \in Times
  /\ now' = now + LongWait
  /\ last' = NoCall
  /\ UNCHANGED << users, verifications, outbox, logs, seededRand, issued, emailer,
                  calls, created, panicked, draws >>

(***************************************************************************)
(* Create.                                                                 *)
(***************************************************************************)
\* CreateInsertError without the errors.Is test: every error of the insert
\* is wrapped alike.
CreateInsertErrorWrapped(err) == "could not insert user"

\* What Create returns for an error of repo.Insert.
CreateInsertError(err) ==
  IF err = "ErrDuplicateRecord" THEN "errAlreadyExists" ELSE "could not insert user"

\* Create's test s.emailer != nil, and the test left out.
MailerAssumed == TRUE
MailerConfigured == emailer # "nil"

\* A caller entering SendEmailVerification: randString reads the random
\* source first.
EnterSendEmailVerification(op, user, userID, username, to) ==
  [pc |-> "sev_rand", op |-> op, user |-> user, userID |-> userID,
   username |-> username, to |-> to, r |-> seededRand, code |-> << >>]

\* The calls of SendEmailVerification are bounded.
VerificationRoom == draws < MaxVerifications

\* Create(ctx, in), up to its call of SendEmailVerification: validation,
\* hashing, the insert and the mapping of the inserted row.  fault names
\* the collaborator that fails, if one does.
Create(p, in, fault) ==
  /\ ~panicked
  /\ calls[p].pc = "idle"
  /\ Cardinality({ r \in users : r.ID # SeedID }) < MaxUsers
  /\ LET hash == GenerateFromPassword(in.Password, DefaultCost)
         row == NewRow(in, NextUUID, hash)
         ins == RepoInsert(users, row, fault = "storage")
         conv == newUserFromRepository(RepoInserted(row, fault))
         res(err, user, eff) ==
           [NoCall EXCEPT !.op = "Create", !.input = in, !.email = in.Email,
                          !.err = err, !.user = user, !.effects = eff,
                          !.cause = IF "repo.Insert" \in eff THEN ins.err
                                    ELSE IF fault = "hash" /\ eff # {} THEN "bcrypt" ELSE "nil"]
     IN  IF ~ValidateCreateUserInput(in) THEN
           /\ last' = res("could not validate create user input", NoUser, {})
           /\ UNCHANGED << users, calls, created, draws >>
         ELSE IF fault = "hash" THEN
           /\ last' = res("could not hash password", NoUser, {"bcrypt"})
           /\ UNCHANGED << users, calls, created, draws >>
         ELSE IF ins.err # "nil" THEN
           /\ last' = res(CreateInsertError(ins.err), NoUser, {"bcrypt", "repo.Insert"})
           /\ UNCHANGED << users, calls, created, draws >>
         ELSE IF conv.err # "nil" THEN
           /\ last' = res("could not parse storage user to domain model", NoUser,
                          {"bcrypt", "repo.Insert"})
           /\ users' = ins.rows
           /\ UNCHANGED << calls, created, draws >>
         ELSE IF ~MailerConfigured THEN
           /\ last' = res("nil", conv.user, {"bcrypt", "repo.Insert"})
           /\ users' = ins.rows
           /\ created' = [created EXCEPT ![in.Email] = @ + 1]
           /\ UNCHANGED << calls, draws >>
         ELSE
           /\ VerificationRoom
           /\ users' = ins.rows
           /\ calls' = [calls EXCEPT ![p] =
                          EnterSendEmailVerification("Create", conv.user, conv.user.ID,
                                                     conv.user.Username, conv.user.Email)]
           /\ draws' = draws + 1
           /\ last' = NoCall
           /\ UNCHANGED created
  /\ UNCHANGED << verifications, outbox, logs, seededRand, now, issued, emailer,
                  panicked >>

(***************************************************************************)
(* SendEmailVerification, called directly or by Create.                    *)
(***************************************************************************)
SendEmailVerification(p, userID, username, to) ==
  /\ ~panicked
  /\ calls[p].pc = "idle"
  /\ VerificationRoom
  /\ calls' = [calls EXCEPT ![p] =
                 EnterSendEmailVerification("SendEmailVerification", NoUser, userID,
                                            username, to)]
  /\ draws' = draws + 1
  /\ last' = NoCall
  /\ UNCHANGED << users, verifications, outbox, logs, seededRand, now, issued, emailer,
                  created, panicked >>

\* randString(6): the code is drawn from the state the caller read, and the
\* source is left in the state that follows it.
SevRand(p) ==
  /\ ~panicked
  /\ calls[p].pc = "sev_rand"
  /\ LET drawn == randString(CodeLength, calls[p].r)
     IN  /\ seededRand' = drawn.s
         /\ calls' = [calls EXCEPT ![p].pc = "sev_insert", ![p].code = drawn.str]
  /\ last' = NoCall
  /\ UNCHANGED << users, verifications, outbox, logs, now, issued, emailer, created,
                  panicked, draws >>

\* The row SendEmailVerification persists: its two timestamps are two
\* readings of the clock.
NewEmailVerification(code, userID, t1, t2) ==
  [Code |-> code, UserID |-> userID, CreatedAt |-> t1,
   ExpiresAt |-> t2 + VerificationTTL * TicksPerSecond]

\* Message with a link that stops at the endpoint.
MessageWithoutCode(to, code) ==
  [from |-> emailVerificationSenderName, to |-> to,
   body |-> [From |-> emailVerificationSenderAddr, To |-> to,
             Subject |-> emailVerificationSenderName,
             link |-> [path |-> emailVerificationEndpoint, code |-> << >>]]]

\* The message handed to the mailer.  path.Join cleans the endpoint (it
\* drops empty elements) and appends the code.
Message(to, code) ==
  [from |-> emailVerificationSenderName, to |-> to,
   body |-> [From |-> emailVerificationSenderAddr, To |-> to,
             Subject |-> emailVerificationSenderName,
             link |-> [path |-> emailVerificationEndpoint, code |-> code]]]

\* Return with a Create that fails when its SendEmailVerification failed.
ReturnPropagating(p, err, eff) ==
  /\ calls' = [calls EXCEPT ![p] = Idle]
  /\ last' = [NoCall EXCEPT !.op = calls[p].op, !.err = err, !.cause = err,
                            !.user = IF err = "nil" THEN calls[p].user ELSE NoUser,
                            !.id = calls[p].userID, !.email = calls[p].to,
                            !.effects = eff]
  /\ logs' = logs
  /\ created' = IF calls[p].op = "Create" /\ err = "nil"
                  THEN [created EXCEPT ![calls[p].user.Email] = @ + 1] ELSE created

\* SendEmailVerification returns err to its caller.  Create logs an error
\* and returns the user it created all the same.
Return(p, err, eff) ==
  /\ calls' = [calls EXCEPT ![p] = Idle]
  /\ IF calls[p].op = "Create" THEN
       /\ last' = [NoCall EXCEPT !.op = "Create", !.err = "nil", !.cause = err,
                                 !.user = calls[p].user,
                                 !.id = calls[p].userID, !.email = calls[p].to,
                                 !.effects = {"bcrypt", "repo.Insert"} \cup eff]
       /\ logs' = IF err # "nil" THEN logs \cup {calls[p].user.ID} ELSE logs
       /\ created' = [created EXCEPT ![calls[p].user.Email] = @ + 1]
     ELSE
       /\ last' = [NoCall EXCEPT !.op = "SendEmailVerification", !.err = err,
                                 !.id = calls[p].userID, !.email = calls[p].to,
                                 !.effects = eff]
       /\ UNCHANGED << logs, created >>

SevInsert(p, fault, t2) ==
  /\ ~panicked
  /\ calls[p].pc = "sev_insert"
  /\ LET row == NewEmailVerification(calls[p].code, calls[p].userID, now, t2)
         ins == RepoInsertEmailVerification(verifications, row, fault)
     IN  IF ins.err # "nil" THEN
           /\ Return(p, "could not insert email verification",
                     {"repo.InsertEmailVerification"})
           /\ UNCHANGED verifications
         ELSE
           /\ verifications' = ins.rows
           /\ calls' = [calls EXCEPT ![p].pc = "sev_send"]
           /\ last' = NoCall
           /\ UNCHANGED << logs, created >>
  /\ now' = t2
  /\ UNCHANGED << users, outbox, seededRand, issued, emailer, panicked, draws >>

\* s.emailer.Send: a nil emailer is a nil interface, and calling it panics.
SevSend(p, fault) ==
  /\ ~panicked
  /\ calls[p].pc = "sev_send"
  /\ IF emailer = "nil" THEN
       /\ panicked' = TRUE
       /\ calls' = [calls EXCEPT ![p].pc = "panic"]
       /\ last' = NoCall
       /\ UNCHANGED << outbox, logs, created >>
     ELSE IF fault THEN
       /\ Return(p, "could not send email verification",
                 {"repo.InsertEmailVerification", "emailer.Send"})
       /\ UNCHANGED << outbox, panicked >>
     ELSE
       /\ outbox' = outbox \cup {Message(calls[p].to, calls[p].code)}
       /\ Return(p, "nil", {"repo.InsertEmailVerification", "emailer.Send"})
       /\ UNCHANGED panicked
  /\ UNCHANGED << users, verifications, seededRand, now, issued, emailer, draws >>

(***************************************************************************)
(* FetchByID, Delete.                                                      *)
(***************************************************************************)
\* FetchByID without validate.ID: every id reaches the repository.
FetchByIDResultUnvalidated(rows, id, fault) ==
  LET found == RepoSelectByID(rows, id)
      res(err, user) ==
        [NoCall EXCEPT !.op = "FetchByID", !.id = id, !.err = err, !.user = user,
                       !.effects = {"repo.SelectByID"},
                       !.cause = IF fault THEN "storage" ELSE "nil",
                       !.stored = IF fault THEN {} ELSE found]
  IN  IF fault THEN res("could not select user by id", NoUser)
      ELSE IF found = {} THEN res("errNotFound", NoUser)
      ELSE res("nil", newUserFromRepository(CHOOSE r \in found : TRUE).user)

FetchByIDResult(rows, id, fault) ==
  LET found == RepoSelectByID(rows, id)
      conv == newUserFromRepository(CHOOSE r \in found : TRUE)
      res(err, user, eff) ==
        [NoCall EXCEPT !.op = "FetchByID", !.id = id, !.err = err, !.user = user,
                       !.effects = eff, !.cause = IF fault /\ eff # {} THEN "storage" ELSE "nil", !.stored = IF eff = {} \/ fault THEN {} ELSE found]
  IN  IF ~ValidateID(id) THEN res("could not validate id", NoUser, {})
      ELSE IF fault THEN res("could not select user by id", NoUser, {"repo.SelectByID"})
      ELSE IF found = {} THEN res("errNotFound", NoUser, {"repo.SelectByID"})
      ELSE IF conv.err # "nil"
        THEN res("could not parse storage user to domain model", NoUser, {"repo.SelectByID"})
      ELSE res("nil", conv.user, {"repo.SelectByID"})

\* FetchByID that marks the row it fetched.
FetchByIDMarking(id, fault) ==
  /\ ~panicked
  /\ SomeoneIdle
  /\ last' = FetchByIDResult(users, id, fault)
  /\ users' = IF last'.err = "nil" THEN RepoDeleteByID(users, id) ELSE users
  /\ UNCHANGED << verifications, outbox, logs, seededRand, now, issued, emailer,
                  calls, created, panicked, draws >>

FetchByID(id, fault) ==
  /\ ~panicked
  /\ SomeoneIdle
  /\ last' = FetchByIDResult(users, id, fault)
  /\ UNCHANGED << users, verifications, outbox, logs, seededRand, now, issued, emailer,
                  calls, created, panicked, draws >>

Delete(id, fault) ==
  /\ ~panicked
  /\ SomeoneIdle
  /\ LET res(err, eff) ==
           [NoCall EXCEPT !.op = "Delete", !.id = id, !.err = err, !.effects = eff,
                          !.cause = IF fault /\ eff # {} THEN "storage" ELSE "nil"]
     IN  IF ~ValidateID(id) THEN
           /\ last' = res("could not validate id", {})
           /\ UNCHANGED users
         ELSE IF fault THEN
           /\ last' = res("could not delete user by id", {"repo.DeleteByID"})
           /\ UNCHANGED users
         ELSE
           /\ last' = res("nil", {"repo.DeleteByID"})
           /\ users' = RepoDeleteByID(users, id)
  /\ UNCHANGED << verifications, outbox, logs, seededRand, now, issued, emailer, calls,
                  created, panicked, draws >>

(***************************************************************************)
(* GenerateToken.                                                          *)
(***************************************************************************)
GenerateTokenResult(rows, email, password, fault, t) ==
  LET found == RepoSelectByEmail(rows, email)
      storageUser == CHOOSE r \in found : TRUE
      gen == generateJWT(storageUser.ID, storageUser.Role, jwtSigningKey, t)
      res(err, out, claims, eff) ==
        [NoCall EXCEPT !.op = "GenerateToken", !.email = email, !.password = password,
                       !.t1 = t, !.t2 = t, !.err = err, !.out = out, !.claims = claims,
                       !.effects = eff,
                       !.cause = IF fault /\ eff # {} THEN "storage"
                                 ELSE IF "jwt.Sign" \notin eff /\ "bcrypt" \in eff /\
                                         err = "could not generate jwt"
                                   THEN gen.err ELSE "nil",
                       !.stored = IF eff = {} \/ fault THEN {} ELSE found]
  IN  IF ~ValidateEmail(email) THEN res("could not validate email", EmptyToken, NoClaims, {})
      ELSE IF ~ValidatePassword(password)
        THEN res("could not validate password", EmptyToken, NoClaims, {})
      ELSE IF fault
        THEN res("could not select user by email", EmptyToken, NoClaims,
                 {"repo.SelectByEmail"})
      ELSE IF found = {}
        THEN res("errNotFound", EmptyToken, NoClaims, {"repo.SelectByEmail"})
      ELSE IF ~CompareHashAndPassword(storageUser.PasswordHash, password)
        THEN res("errPasswordInvalid", EmptyToken, NoClaims,
                 {"repo.SelectByEmail", "bcrypt"})
      ELSE IF gen.err # "nil"
        THEN res("could not generate jwt", EmptyToken, NoClaims,
                 {"repo.SelectByEmail", "bcrypt"})
      ELSE res("nil", gen.token, NewClaims(storageUser.ID, storageUser.Role, t),
               {"repo.SelectByEmail", "bcrypt", "jwt.Sign"})

GenerateToken(email, password, fault) ==
  /\ ~panicked
  /\ SomeoneIdle
  /\ LET res == GenerateTokenResult(users, email, password, fault, now)
         rec == [token |-> res.out, claims |-> res.claims]
     IN  /\ last' = res
         /\ IF res.err = "nil"
              THEN /\ rec \in issued \/ Cardinality(issued) < MaxTokens
                   /\ issued' = issued \cup {rec}
              ELSE UNCHANGED issued
  /\ UNCHANGED << users, verifications, outbox, logs, seededRand, now, emailer, calls,
                  created, panicked, draws >>

\* generateJWT(userID, role) called with any id and any role, at the
\* clock reading of the step.
RoleInputs == {RoleUser, RoleAdmin, "guest", ""}
GenerateJWT(userID, role) ==
  /\ ~panicked
  /\ SomeoneIdle
  /\ LET gen == generateJWT(userID, role, jwtSigningKey, now)
         claims == IF gen.err = "nil" THEN NewClaims(userID, role, now) ELSE NoClaims
         rec == [token |-> gen.token, claims |-> claims]
     IN  /\ last' = [NoCall EXCEPT !.op = "generateJWT", !.id = userID, !.role = role,
                                   !.t1 = now, !.t2 = now, !.err = gen.err,
                                   !.out = gen.token, !.claims = claims,
                                   !.effects = IF gen.err = "nil" THEN {"jwt.Sign"} ELSE {}]
         /\ IF gen.err = "nil"
              THEN /\ rec \in issued \/ Cardinality(issued) < MaxTokens
                   /\ issued' = issued \cup {rec}
              ELSE UNCHANGED issued
  /\ UNCHANGED << users, verifications, outbox, logs, seededRand, now, emailer, calls,
                  created, panicked, draws >>

(***************************************************************************)
(* VerifyToken.                                                            *)
(***************************************************************************)
\* time.Unix(int64(expiration), 0).Before(time.Now()) at clock reading t.
Expired(expiration, t) == expiration * TicksPerSecond < t

\* NewVerifyTokenResponse with the role read from the row.
NewVerifyTokenResponseStored(storageUser, role) ==
  [ID |-> storageUser.ID, Username |-> storageUser.Username, Role |-> storageUser.Role]

\* The response of a successful VerifyToken: id and username of the row
\* just fetched, the role of the token.
NewVerifyTokenResponse(storageUser, role) ==
  [ID |-> storageUser.ID, Username |-> storageUser.Username, Role |-> role]

\* VerifyToken(ctx, token): the library parses at clock reading t1, the
\* expiry check reads the clock again at t2.
VerifyTokenResult(rows, tok, fault, t1, t2) ==
  LET jwtToken == Parse(tok, jwtSigningKey, t1)
      claims == jwtToken.Claims
      found == RepoSelectByID(rows, claims["user_id"].s)
      storageUser == CHOOSE r \in found : TRUE
      \* read is the latest reading of the clock the call made
      res(err, resp, eff, read) ==
        [NoCall EXCEPT !.op = "VerifyToken", !.token = tok, !.t1 = t1, !.t2 = read,
                       !.err = err, !.resp = resp, !.effects = eff,
                       !.cause = IF fault /\ eff # {} THEN "storage" ELSE jwtToken.err,
                       !.stored = IF eff = {} \/ fault THEN {} ELSE found]
      none == NoVerifyTokenResponse
  IN  IF tok.kind = "empty" THEN res("errTokenEmpty", none, {}, t1)
      ELSE IF jwtToken.err # "nil" THEN res("could not parse token", none, {}, t1)
      ELSE IF ~jwtToken.Valid THEN res("errTokenInvalid", none, {}, t1)
      ELSE IF ~IsString(claims["user_id"])
        THEN res("could not find user id in token", none, {}, t1)
      ELSE IF ~IsString(claims["role"])
        THEN res("could not find role in token", none, {}, t1)
      ELSE IF ~IsNumber(claims["exp"])
        THEN res("could not find expiration in token", none, {}, t1)
      ELSE IF Expired(claims["exp"].n, t2) THEN res("errTokenExpired", none, {}, t2)
      ELSE IF fault
        THEN res("could not select user by id", none, {"repo.SelectByID"}, t2)
      ELSE IF found = {} THEN res("errNotFound", none, {"repo.SelectByID"}, t2)
      ELSE res("nil", NewVerifyTokenResponse(storageUser, claims["role"].s),
               {"repo.SelectByID"}, t2)

\* Tokens a caller may present besides the ones this service issued: one a
\* holder of the key signed with HS512 for the first created user, as user
\* or as admin, expiring a day after the service started; and that token
\* with another algorithm, another key, or a claim missing or mistyped.
ForeignPayload(role) ==
  [NoPayload EXCEPT !["user_id"] = Str(UUIDs[1]), !["role"] = Str(role),
                    !["exp"] = Num(Unix(StartTime) + TokenTTL),
                    !["iat"] = Num(Unix(StartTime))]
ForeignTokens ==
  { SignedString(jwtSigningMethod, jwtSigningKey, ForeignPayload(r)) :
      r \in {RoleUser, RoleAdmin} }
AlgTokens ==
  { SignedString(alg, jwtSigningKey, ForeignPayload(RoleAdmin)) :
      alg \in {"HS256", "RS256", "none", "XX999"} }
BrokenTokens ==
  { SignedString(jwtSigningMethod, "another-key", ForeignPayload(RoleAdmin)),
    SignedString(jwtSigningMethod, jwtSigningKey,
                 [ForeignPayload(RoleUser) EXCEPT !["user_id"] = Absent]),
    SignedString(jwtSigningMethod, jwtSigningKey,
                 [ForeignPayload(RoleUser) EXCEPT !["user_id"] = Num(7)]),
    SignedString(jwtSigningMethod, jwtSigningKey,
                 [ForeignPayload(RoleUser) EXCEPT !["role"] = Absent]),
    SignedString(jwtSigningMethod, jwtSigningKey,
                 [ForeignPayload(RoleUser) EXCEPT !["exp"] = Absent]),
    EmptyToken, MalformedToken }
IssuedTokens == { i.token : i \in issued }
TokenInputs == IssuedTokens \cup ForeignTokens \cup AlgTokens \cup BrokenTokens

VerifyToken(tok, fault, t2) ==
  /\ ~panicked
  /\ SomeoneIdle
  /\ last' = VerifyTokenResult(users, tok, fault, now, t2)
  /\ now' = last'.t2
  /\ UNCHANGED << users, verifications, outbox, logs, seededRand, issued, emailer,
                  calls, created, panicked, draws >>

(***************************************************************************)
(* The system.                                                             *)
(***************************************************************************)
Faults == {"none", "hash", "storage", "role"}

\* The calls of each operation, over the inputs of the model.
CallCreate ==
  \E p \in Procs, in \in CreateUserInputs, fault \in Faults : Create(p, in, fault)
CallSendEmailVerification ==
  \E p \in Procs : SendEmailVerification(p, UUIDs[1], Jane.Username, Jane.Email)
StepSendEmailVerification ==
  \/ \E p \in Procs : SevRand(p)
  \/ \E p \in Procs, fault \in BOOLEAN, t2 \in LaterReadings(now) : SevInsert(p, fault, t2)
  \/ \E p \in Procs, fault \in BOOLEAN : SevSend(p, fault)
CallFetchByID == \E id \in IDInputs, fault \in BOOLEAN : FetchByID(id, fault)
CallDelete == \E id \in IDInputs, fault \in BOOLEAN : Delete(id, fault)
CallGenerateToken ==
  \E email \in EmailInputs, password \in PasswordInputs, fault \in BOOLEAN :
    GenerateToken(email, password, fault)
CallVerifyToken ==
  \E tok \in TokenInputs, fault \in BOOLEAN, t2 \in LaterReadings(now) :
    VerifyToken(tok, fault, t2)

\* Every operation, every configuration.
Next ==
  \/ Tick
  \/ Wait
  \/ CallCreate
  \/ CallSendEmailVerification
  \/ StepSendEmailVerification
  \/ CallFetchByID
  \/ CallDelete
  \/ CallGenerateToken
  \/ CallVerifyToken

Spec == Init /\ [][Next]_vars

\* The accounts and tokens of a service built without the email
\* verification option, whose Create sends nothing.
InitAuth == Init /\ emailer = "nil"
NextAuth ==
  \/ Tick
  \/ Wait
  \/ CallCreate
  \/ CallFetchByID
  \/ CallDelete
  \/ CallGenerateToken
  \/ CallVerifyToken

SpecAuth == InitAuth /\ [][NextAuth]_vars

\* The accounts and email verifications of a service built with or without
\* the option, over a day in which no token is asked for.
NextMail ==
  \/ Tick
  \/ CallCreate
  \/ CallSendEmailVerification
  \/ StepSendEmailVerification
  \/ CallFetchByID
  \/ CallDelete

SpecMail == Init /\ [][NextMail]_vars

\* generateJWT on its own, over every id and role, through a day.
CallGenerateJWT == \E userID \in IDInputs, role \in RoleInputs : GenerateJWT(userID, role)
NextJWT ==
  \/ Tick
  \/ Wait
  \/ CallGenerateJWT

SpecJWT == Init /\ [][NextJWT]_vars

(***************************************************************************)
(* Properties.  A property about a call speaks of `last`, in the state     *)
(* the call returned in.                                                   *)
(***************************************************************************)
Verified == last.op = "VerifyToken"
\* The record of the token just verified, if this service issued it.
IssuedAs == { i \in issued : i.token = last.token }
ExpiryTick(tok) == tok.payload["exp"].n * TicksPerSecond
ClaimExpiryTick(i) == i.claims.ExpiresAt.n * TicksPerSecond

\* C1: a token that generateJWT issued for a user and role, verified while
\* the user exists and before it expires, is accepted, and VerifyToken
\* returns that user id and that role.
C1_IssueVerifyRoundTrip ==
  \A i \in IssuedAs :
    ( /\ Verified
      /\ last.cause # "storage"
      /\ RepoSelectByID(users, i.claims.id.s) # {}
      /\ last.t2 < ClaimExpiryTick(i) )
    => /\ last.err = "nil"
       /\ last.resp.ID = i.claims.id.s
       /\ last.resp.Role = i.claims.role.s

\* C2: a token signed by the service's key and algorithm (one generateJWT
\* issued, or one a holder of the key issued with the claims VerifyToken
\* reads), verified at any time after its expiry, fails with
\* errTokenExpired and with no other error.
C2_ExpiredAfterWindow ==
  ( /\ Verified
    /\ last.token \in IssuedTokens \cup ForeignTokens
    /\ last.t1 > ExpiryTick(last.token) )
  => last.err = "errTokenExpired"

\* C3: a well-formed token of an existing user whose expiry is at or before
\* the time of verification fails with errTokenExpired; at exactly its
\* expiry instant it is rejected.
C3_ExpiryInclusive ==
  ( /\ Verified
    /\ last.token \in ForeignTokens
    /\ RepoSelectByID(users, last.token.payload["user_id"].s) # {}
    /\ ExpiryTick(last.token) <= last.t1 )
  => last.err = "errTokenExpired"

\* C4: a token whose header names another algorithm than HS512 is rejected
\* with errTokenInvalid, without a repository lookup and without a response.
C4_OtherAlgorithmInvalid ==
  ( /\ Verified
    /\ last.token.kind = "jwt"
    /\ last.token.alg # jwtSigningMethod )
  => /\ last.err = "errTokenInvalid"
     /\ last.effects = {}
     /\ last.resp = NoVerifyTokenResponse

\* C5: GenerateToken with a registered email and a well-formed wrong
\* password returns the error it returns for a well-formed email that no
\* user has.
C5_NoUserEnumeration ==
  ( /\ last.op = "GenerateToken"
    /\ ValidateEmail(last.email)
    /\ ValidatePassword(last.password)
    /\ last.stored # {}
    /\ \A r \in last.stored : ~CompareHashAndPassword(r.PasswordHash, last.password) )
  => \A other \in { e \in EmailInputs : ValidateEmail(e) /\ RepoSelectByEmail(users, e) = {} } :
       last.err = GenerateTokenResult(users, other, last.password, FALSE, now).err

\* C6 as stated: of the Create calls with one email at most one returns a
\* user and every other one fails with errAlreadyExists, and the repository
\* holds at most one row with that email.
C6_OthersFailAlreadyExists ==
  /\ \A e \in DOMAIN created : created[e] <= 1
  /\ \A e \in DOMAIN created : Cardinality({ r \in users : r.Email = e }) <= 1
  /\ ( last.op = "Create" /\ ValidateCreateUserInput(last.input) )
     => last.err \in {"nil", "errAlreadyExists"}

\* C6 as amended: of the Create calls with one email at most one returns a
\* user, the repository holds at most one row with that email, and a call
\* returns errAlreadyExists exactly when the insert signalled a duplicate;
\* the failures left are those of validation, hashing, storage and mapping.
C6_OneAccountPerEmail ==
  /\ \A e \in DOMAIN created : created[e] <= 1
  /\ \A e \in DOMAIN created : Cardinality({ r \in users : r.Email = e }) <= 1
  /\ last.op = "Create" =>
       /\ last.err = "errAlreadyExists" <=> last.cause = "ErrDuplicateRecord"
       /\ last.err = "errAlreadyExists" => \E r \in users : r.Email = last.email
       /\ last.err \in {"nil", "errAlreadyExists", "could not validate create user input",
                        "could not hash password", "could not insert user",
                        "could not parse storage user to domain model"}
       /\ last.err = "nil" =>
            { r.ID : r \in { x \in users : x.Email = last.user.Email } } = {last.user.ID}

\* A second Create with the email is refused while the first, which
\* inserted the row, has not returned yet.
C6_Witness ==
  /\ last.op = "Create"
  /\ last.err = "errAlreadyExists"
  /\ \E p \in Procs :
       /\ calls[p].op = "Create"
       /\ calls[p].pc # "idle"
       /\ calls[p].user.Email = last.email

\* C7: every row Create inserted, and every user it returns, has role user
\* and emailVerified false; no admin row exists, and no token is issued
\* for the role admin.
C7_CreateNeverElevates ==
  /\ \A r \in users : r.Role = RoleUser /\ ~r.EmailVerified
  /\ ( last.op = "Create" /\ last.err = "nil" )
     => last.user.Role = RoleUser /\ ~last.user.EmailVerified
  /\ \A i \in issued :
       /\ i.claims.role # Str(RoleAdmin)
       /\ i.token.payload["role"] # Str(RoleAdmin)
  /\ ( last.op = "GenerateToken" /\ last.err = "nil" ) => last.claims.role = Str(RoleUser)

\* A token has been issued to a user Create inserted.
C7_Witness ==
  /\ last.op = "GenerateToken"
  /\ last.err = "nil"
  /\ \E r \in users : Str(r.ID) = last.claims.id
  /\ created[last.email] = 1

\* C8: GenerateToken returns a token only for a stored user and that
\* user's password, the token is not empty and carries the user's id and
\* stored role; with another well-formed password it fails with
\* errPasswordInvalid and issues no token.
C8_TokenOnlyForCredentials ==
  last.op = "GenerateToken" =>
    /\ last.err = "nil" =>
         /\ last.out.kind = "jwt"
         /\ \E r \in RepoSelectByEmail(users, last.email) :
              /\ CompareHashAndPassword(r.PasswordHash, last.password)
              /\ last.out.payload["user_id"] = Str(r.ID)
              /\ last.out.payload["role"] = Str(r.Role)
    /\ ( /\ ValidatePassword(last.password)
         /\ last.stored # {}
         /\ \A r \in last.stored : ~CompareHashAndPassword(r.PasswordHash, last.password) )
       => last.err = "errPasswordInvalid" /\ last.out = EmptyToken

\* C9: a token issued for a user fails with errNotFound once the user is
\* deleted, the token being inside its validity; and VerifyToken returns a
\* response only when the repository returned the user.
C9_DeletedUserNotFound ==
  /\ \A i \in IssuedAs :
       ( /\ Verified
         /\ last.cause # "storage"
         /\ RepoSelectByID(users, i.claims.id.s) = {}
         /\ last.t2 < ClaimExpiryTick(i) )
       => last.err = "errNotFound"
  /\ ( Verified /\ last.err = "nil" ) => last.stored # {}

\* C10: the role a successful VerifyToken returns is the role claim of the
\* token, whatever role the row has; id and username are the row's.
C10_RoleFromToken ==
  ( Verified /\ last.err = "nil" ) =>
    /\ IsString(last.token.payload["role"])
    /\ last.resp.Role = last.token.payload["role"].s
    /\ \E r \in RepoSelectByID(users, last.token.payload["user_id"].s) :
         last.resp.ID = r.ID /\ last.resp.Username = r.Username

\* A token with the role admin verified for a user whose row has the role
\* user: the response says admin.
C10_Witness ==
  /\ Verified
  /\ last.err = "nil"
  /\ last.resp.Role = RoleAdmin
  /\ \E r \in users : r.ID = last.resp.ID /\ r.Role = RoleUser

\* The inputs the call that just returned was given are malformed.
RejectedAsMalformed(call) ==
  \/ call.op = "Create" /\ ~ValidateCreateUserInput(call.input)
  \/ call.op \in {"FetchByID", "Delete"} /\ ~ValidateID(call.id)
  \/ call.op = "GenerateToken" /\ (~ValidateEmail(call.email) \/ ~ValidatePassword(call.password))
ValidationErrors ==
  {"could not validate create user input", "could not validate id",
   "could not validate email", "could not validate password"}

\* C11: a call of Create, FetchByID, Delete or GenerateToken with malformed
\* input returns a validation error having reached no collaborator (no
\* repository method, no hashing or comparison, no signing, no mailer), and
\* it leaves the repository, the outbox and the issued tokens as they were.
C11_ValidationBeforeEffects ==
  [][ RejectedAsMalformed(last') =>
        /\ last'.err \in ValidationErrors
        /\ last'.effects = {}
        /\ UNCHANGED << users, verifications, outbox, issued, seededRand >> ]_vars

\* Malformed input was rejected while the repository held a user the call
\* could have touched.
C11_Witness ==
  /\ RejectedAsMalformed(last)
  /\ last.op \in {"FetchByID", "Delete", "GenerateToken"}
  /\ users # {}

SendErrors ==
  {"could not insert email verification", "could not send email verification"}

\* C12: a Create whose SendEmailVerification failed, at the repository or
\* at the mailer, returns the user it inserted and a nil error, the failure
\* is logged for that user, and the user's row is still in the repository.
C12_SendFailureNotFatal ==
  ( last.op = "Create" /\ last.cause \in SendErrors ) =>
    /\ last.err = "nil"
    /\ last.user # NoUser
    /\ last.user.ID \in logs
    /\ \E r \in users : r.ID = last.user.ID /\ r.Email = last.user.Email

\* Create has returned after each of the two failures: one logged user's
\* verification was refused by the repository, another's by the mailer.
C12_Witness ==
  /\ last.op = "Create"
  /\ last.cause = "could not send email verification"
  /\ \E id \in logs : id # last.user.ID /\ \A v \in verifications : v.UserID # id

\* The characters of chars.
Alphabet == { chars[i] : i \in DOMAIN chars }
\* The user ids SendEmailVerification has been passed: the id of the direct
\* calls and the ids of the users Create inserted.
PassedUserIDs == {UUIDs[1]} \cup { r.ID : r \in users }

\* C13: every email verification row in the repository has a code of 6
\* characters of the lowercase-alphanumeric alphabet, the user id that was
\* passed in, and ExpiresAt exactly 24 hours after CreatedAt, whatever the
\* clock did while SendEmailVerification ran.
C13_VerificationRecordShape ==
  \A v \in verifications :
    /\ Len(v.Code) = CodeLength
    /\ \A i \in DOMAIN v.Code : v.Code[i] \in Alphabet
    /\ v.UserID \in PassedUserIDs
    /\ v.ExpiresAt = v.CreatedAt + VerificationTTL * TicksPerSecond

\* The callers inside randString, which reads and writes seededRand with
\* no lock held.
InRandString == { p \in Procs : calls[p].pc = "sev_rand" }

\* C14: no two concurrent calls read and write the same in-process
\* variable without synchronisation: at most one caller at a time is inside
\* randString, the only code that touches the package-level random source.
C14_NoSharedMutableState == Cardinality(InRandString) <= 1

\* C15: no call aborts the process, however the service was built: every
\* call ends by returning, and SendEmailVerification without a mailer
\* returns an error.
C15_NoAbort ==
  /\ ~panicked
  /\ \A p \in Procs : calls[p].pc # "panic"
  /\ ( last.op = "SendEmailVerification" /\ emailer = "nil" ) => last.err # "nil"

\* The error SendEmailVerification returned in the step just taken, to its
\* caller or to Create.
SevError(call) == IF call.op = "Create" THEN call.cause ELSE call.err
\* The verification rows with the code and the user id caller p holds.
Persisted(p, rows) ==
  { v \in rows : v.Code = calls[p].code /\ v.UserID = calls[p].userID }

\* C16: SendEmailVerification hands a message to the mailer only after
\* InsertEmailVerification succeeded, and the link of the message carries
\* the persisted code; a failed insert returns a persistence error, adds no
\* row and calls no mailer; a failed send returns a delivery error and
\* leaves the persisted row in place.
C16_PersistBeforeSend ==
  [][ /\ outbox' # outbox =>
           \E p \in Procs :
             /\ calls[p].pc = "sev_send"
             /\ Persisted(p, verifications) # {}
             /\ outbox' = outbox \cup {[from |-> emailVerificationSenderName,
                                        to |-> calls[p].to,
                                        body |-> [From |-> emailVerificationSenderAddr,
                                                  To |-> calls[p].to,
                                                  Subject |-> emailVerificationSenderName,
                                                  link |-> [path |-> emailVerificationEndpoint,
                                                            code |-> calls[p].code]]]}
      /\ \A p \in Procs :
           ( calls[p].pc = "sev_insert" /\ calls'[p].pc = "idle" ) =>
             /\ SevError(last') = "could not insert email verification"
             /\ "emailer.Send" \notin last'.effects
             /\ UNCHANGED << verifications, outbox >>
      /\ \A p \in Procs :
           ( calls[p].pc = "sev_send" /\ calls'[p].pc = "idle" /\ SevError(last') # "nil" ) =>
             /\ SevError(last') = "could not send email verification"
             /\ Persisted(p, verifications') # {}
             /\ UNCHANGED << verifications, outbox >> ]_vars

\* The mailer refused a message after the repository stored its code, on a
\* service whose mailer has accepted another message before.
C16_Witness ==
  /\ last.op = "SendEmailVerification"
  /\ last.err = "could not send email verification"
  /\ "repo.InsertEmailVerification" \in last.effects
  /\ \E v \in verifications : v.UserID = last.id
  /\ outbox # {}

\* The callers whose Create is inside SendEmailVerification.
CreateSending == { p \in Procs : calls[p].op = "Create" /\ calls[p].pc # "idle" }

\* C17: Create calls SendEmailVerification only with a mailer configured
\* and only after its insert succeeded, for the id and email of the user
\* inserted; it passes InsertEmailVerification once, which adds at most one
\* row, for that id, and hands the mailer at most one message, to that
\* email; a Create that succeeds without a mailer reaches neither
\* collaborator and leaves verifications and outbox alone.
C17_CreateVerifiesOnce ==
  [][ /\ \A p \in Procs : ( p \in CreateSending' /\ p \notin CreateSending ) =>
           /\ emailer = "set"
           /\ calls'[p].pc = "sev_rand"
           /\ calls'[p].userID = calls'[p].user.ID
           /\ calls'[p].to = calls'[p].user.Email
           /\ \E r \in users' \ users : r.ID = calls'[p].userID /\ r.Email = calls'[p].to
           /\ UNCHANGED << verifications, outbox >>
      /\ \A p \in CreateSending :
           /\ ( calls[p].pc = "sev_rand" /\ calls'[p] # calls[p] ) =>
                calls'[p].pc = "sev_insert" /\ UNCHANGED << verifications, outbox >>
           /\ ( calls[p].pc = "sev_insert" /\ calls'[p] # calls[p] ) =>
                /\ calls'[p].pc \in {"sev_send", "idle"}
                /\ verifications' \ verifications \subseteq Persisted(p, verifications')
                /\ Cardinality(verifications' \ verifications) <= 1
                /\ calls'[p].pc = "sev_send" => Persisted(p, verifications') # {}
                /\ UNCHANGED outbox
           /\ ( calls[p].pc = "sev_send" /\ calls'[p] # calls[p] ) =>
                /\ calls'[p].pc = "idle"
                /\ UNCHANGED verifications
                /\ Cardinality(outbox' \ outbox) <= 1
                /\ \A m \in outbox' \ outbox : m.to = calls[p].user.Email
           /\ calls'[p].pc = "idle" =>
                /\ last'.op = "Create" /\ last'.err = "nil" /\ last'.user = calls[p].user
                /\ "repo.InsertEmailVerification" \in last'.effects
      /\ ( last'.op = "Create" /\ last'.err = "nil" /\ emailer = "nil" ) =>
           /\ last'.effects = {"bcrypt", "repo.Insert"}
           /\ UNCHANGED << verifications, outbox >> ]_vars

\* A Create on a service with a mailer has returned its user, the
\* verification stored and the message sent.
C17_Witness ==
  /\ last.op = "Create"
  /\ last.err = "nil"
  /\ emailer = "set"
  /\ "emailer.Send" \in last.effects
  /\ \E v \in verifications : v.UserID = last.user.ID
  /\ \E m \in outbox : m.to = last.user.Email

\* C18: a token generateJWT issues has exp equal to iat plus 24 hours, iat
\* being the second of the one clock reading; with a malformed id it fails
\* with the id validation error, with a role outside {user, admin} with
\* errRoleInvalid, and in both cases it issues no token.
C18_TokenWindow ==
  /\ \A i \in issued :
       /\ IsNumber(i.token.payload["iat"]) /\ IsNumber(i.token.payload["exp"])
       /\ i.token.payload["exp"].n = i.token.payload["iat"].n + TokenTTL
       /\ i.claims.ExpiresAt.n = i.claims.IssuedAt.n + TokenTTL
  /\ last.op = "generateJWT" =>
       /\ ( ValidateID(last.id) /\ ValidateRole(last.role) ) =>
            /\ last.err = "nil"
            /\ last.out.kind = "jwt"
            /\ last.out.payload["iat"] = Num(Unix(last.t1))
            /\ last.out.payload["exp"] = Num(Unix(last.t1) + TokenTTL)
       /\ ~ValidateID(last.id) =>
            last.err = "could not validate id" /\ last.out = EmptyToken
       /\ ( ValidateID(last.id) /\ ~ValidateRole(last.role) ) =>
            last.err = "errRoleInvalid" /\ last.out = EmptyToken
       /\ last.err # "nil" => last.out \notin IssuedTokens /\ last.effects = {}

\* generateJWT signed a token for an admin at a clock reading between two
\* whole seconds.
C18_Witness ==
  /\ last.op = "generateJWT"
  /\ last.err = "nil"
  /\ last.role = RoleAdmin
  /\ last.t1 % TicksPerSecond # 0
  /\ last.out \in IssuedTokens

ReadingEffects == {"repo.SelectByID", "repo.SelectByEmail", "bcrypt", "jwt.Sign"}

\* C20: FetchByID, GenerateToken and VerifyToken, whatever they return,
\* reach no writing collaborator and leave the user rows, the verification
\* rows and the outbox as they were; a step that changes the user rows is
\* one of Create or Delete.
C20_ReadOnlyOperations ==
  [][ /\ last'.op \in {"FetchByID", "GenerateToken", "VerifyToken"} =>
           /\ last'.effects \subseteq ReadingEffects
           /\ UNCHANGED << users, verifications, outbox >>
      /\ users' # users =>
           \/ last'.op \in {"Create", "Delete"}
           \/ \E p \in Procs : calls[p].pc = "idle" /\ calls'[p].op = "Create"
      /\ verifications' # verifications =>
           \E p \in Procs : calls[p].pc = "sev_insert" /\ calls'[p] # calls[p] ]_vars

\* VerifyToken returned a response for a user it fetched: the repository,
\* which holds rows, was read.
C20_Witness ==
  /\ last.op = "VerifyToken"
  /\ last.err = "nil"
  /\ "repo.SelectByID" \in last.effects
  /\ \E r \in users : r.ID = last.resp.ID

====
